---------------------------- MODULE Spec2Model ----------------------------
(***************************************************************************)
(* COVID19-Data-Analysis: the daily-report downloader                      *)
(* (src/data/acquisition.py), its normaliser, the ETL pipeline             *)
(* (src/data/etl.py), and the US dashboard with its loader                 *)
(* (src/data/app.py, src/data/data_loader.py) as state machines.           *)
(*                                                                         *)
(* A table (pandas DataFrame) is a sequence of rows; a row is a function   *)
(* from column names to cell values.  Text cells are strings, a missing    *)
(* text cell is NaN; counts and dates are integers; a rolling mean is the  *)
(* record [nan, sum, cnt] standing for sum/cnt (nan: the cell is missing). *)
(* A date is a day number, day 1 being 2020-01-22 (start_date).            *)
(***************************************************************************)
EXTENDS Integers, Sequences, FiniteSets

VARIABLES
    files,            \* Spec: the raw store's parsed daily reports, in file-name order
    df,               \* Spec: the table the pipeline currently holds
    ops,              \* Spec: the functions applied so far, in order
    valid,            \* Spec: what validate_data returned
    global_daily,     \* Spec: aggregate_data's first result
    country_daily,    \* Spec: aggregate_data's second result
    current_date,     \* FetchSpec: fetch_jhu_covid_data's loop variable
    downloaded_files, \* FetchSpec: fetch_jhu_covid_data's result list
    raw_store,        \* FetchSpec: the raw directory, day -> file state
    attempts,         \* FetchSpec: the days download_file was called for, in order
    returned,         \* FetchSpec: per attempted day, what download_file returned
    pc,               \* FetchSpec: "loop" | "done" ("idle" under Spec)
    cache,            \* LoaderSpec: the cache file data/covid_data_cache.csv
    cache_at_start,   \* LoaderSpec: the cache file as main found it
    remote,           \* LoaderSpec: per requested day, what the remote host answers
    force_refresh,    \* LoaderSpec: load_data's argument
    download_started, \* LoaderSpec: download_data has been called
    all_data,         \* LoaderSpec: download_data's list of frames
    result,           \* LoaderSpec: the table load_data returned
    lpc,              \* LoaderSpec: main's position
    ui                \* LoaderSpec: what main has come to

vars == <<files, df, ops, valid, global_daily, country_daily,
          current_date, downloaded_files, raw_store, attempts, returned, pc,
          cache, cache_at_start, remote, force_refresh, download_started,
          all_data, result, lpc, ui>>

tableVars == <<files, df, ops, valid, global_daily, country_daily>>
fetchVars == <<current_date, downloaded_files, raw_store, attempts, returned, pc>>
loaderVars == <<cache, cache_at_start, remote, force_refresh, download_started,
                all_data, result, lpc, ui>>

----------------------------------------------------------------------------
(* Bounds of the enumerated inputs *)

MaxVal == 2        \* single-row reports: every count is in -MaxNeg..MaxVal
MaxNeg == 1
MaxCount == 1      \* multi-row reports: Confirmed is 0 or MaxCount
MaxRows == 3       \* multi-row reports: rows in the raw store
MaxSeries == 8     \* the one-row-a-day series: its number of days
PreDay == 11       \* the day of the slash-named report (2020-02-01)
MaxDays == 4       \* the downloader: days from start_date to now
MaxChunks == 2     \* the downloader: chunks of one response body
MaxLoaderDays == 8 \* the loader: days from its start_date to now
MaxDrop == 2       \* the loader: by how much a state's Confirmed falls in one day

(* Program constants *)
CutoffDay == 61    \* datetime(2020, 3, 22), as a day number
Window == 7        \* rolling(window=7, ...)
LoaderStartDay == 82  \* datetime(2020, 4, 12), as a day number
RollingWindow == 7    \* rolling(7)
WeekAgo == 8          \* state_data.iloc[-8]

NaN == "NaN"       \* a missing text cell

Vals == (0 - MaxNeg)..MaxVal

----------------------------------------------------------------------------
(* Dates *)

\* (year, month, day) of a day number, for 2020-01-22 .. 2020-04-30
DayToYMD(d) ==
    IF d <= 10 THEN <<2020, 1, 21 + d>>
    ELSE IF d <= 39 THEN <<2020, 2, d - 10>>
    ELSE IF d <= 70 THEN <<2020, 3, d - 39>>
    ELSE <<2020, 4, d - 70>>

\* strftime('%Y%m%d').astype(int)
DateIndex(d) ==
    LET ymd == DayToYMD(d) IN ymd[1] * 10000 + ymd[2] * 100 + ymd[3]

----------------------------------------------------------------------------
(* Table helpers *)

\* the order of the strings that occur, as Python compares them
NameOrder == <<"", "Hubei", "Mainland China", "New York", "Ohio", "US", "Unknown">>

\* a sort key for a text cell; missing cells sort last (na_position='last')
StrRank(s) ==
    IF s = NaN THEN Len(NameOrder) + 1
    ELSE CHOOSE i \in 1..Len(NameOrder) : NameOrder[i] = s

\* DataFrame.rename(columns=mapping), mapping restricted to the columns present
Rename(row, mapping) ==
    LET new(k) == IF k \in DOMAIN mapping THEN mapping[k] ELSE k
    IN  [c \in {new(k) : k \in DOMAIN row} |->
            row[CHOOSE k \in DOMAIN row : new(k) = c]]

\* df[c] = v on one row
WithCol(row, c, v) ==
    [k \in (DOMAIN row) \cup {c} |-> IF k = c THEN v ELSE row[k]]

Min(a, b) == IF a <= b THEN a ELSE b

\* Series.clip(lower=0)
ClipLower0(x) == IF x < 0 THEN 0 ELSE x

\* lexicographic order of two integer tuples of one length
LexLess(a, b) ==
    \E i \in 1..Len(a) :
        /\ a[i] < b[i]
        /\ \A j \in 1..(i - 1) : a[j] = b[j]

\* DataFrame.sort_values: a stable sort of the rows of t, keys[i] the sort key
\* of row i
SortRows(t, keys) ==
    LET n == Len(t)
        before(j, i) == \/ LexLess(keys[j], keys[i])
                        \/ (keys[j] = keys[i] /\ j < i)
        pos(i) == Cardinality({j \in 1..n : before(j, i)}) + 1
    IN  [p \in 1..n |-> t[CHOOSE i \in 1..n : pos(i) = p]]

RECURSIVE Concat(_)
\* pd.concat(list, ignore_index=True)
Concat(ts) == IF ts = <<>> THEN <<>> ELSE ts[1] \o Concat(Tail(ts))

----------------------------------------------------------------------------
(* The raw store's contents: the inputs *)

\* a report of the slash-named era (before 2020-03-22): no Active column
PreRow(s, c, d, r) ==
    [k \in {"Province/State", "Country/Region", "Last Update",
            "Confirmed", "Deaths", "Recovered"} |->
        CASE k = "Province/State" -> s
          [] k = "Country/Region" -> "Mainland China"
          [] k = "Last Update" -> "t"
          [] k = "Confirmed" -> c
          [] k = "Deaths" -> d
          [] OTHER -> r]

\* a report of the underscore-named era
PostRow(co, s, c, d, r, a) ==
    [k \in {"Province_State", "Country_Region", "Last_Update",
            "Confirmed", "Deaths", "Recovered", "Active"} |->
        CASE k = "Province_State" -> s
          [] k = "Country_Region" -> co
          [] k = "Last_Update" -> "t"
          [] k = "Confirmed" -> c
          [] k = "Deaths" -> d
          [] k = "Recovered" -> r
          [] OTHER -> a]

\* a report pd.read_csv parses
File(d, rows) == [date |-> d, rows |-> rows, readable |-> TRUE]

\* a report pd.read_csv raises on (an empty or truncated file, a directory, ...)
BadFile(d) == [date |-> d, rows |-> <<>>, readable |-> FALSE]

\* one report of one row, every count arbitrary
WideFiles ==
    {<<File(PreDay, <<PreRow(s, c, d, r)>>)>> :
        s \in {"Hubei", NaN}, c \in Vals, d \in Vals, r \in Vals}
    \cup
    {<<File(PreDay, <<PreRow(NaN, 10, 1, 2)>>)>>}
    \cup
    {<<File(CutoffDay, <<PostRow("US", "New York", c, d, r, a)>>)>> :
        c \in Vals, d \in Vals, r \in Vals, a \in Vals}

\* two states of one country, a country reported without a state, another country
Keys == {<<"US", "New York">>, <<"US", "Ohio">>, <<"US", NaN>>,
         <<"Mainland China", "Hubei">>}

SmallCounts == {0, MaxCount}

\* rows that report Confirmed only
SmallRows == {PostRow(k[1], k[2], c, 0, 0, 0) : k \in Keys, c \in SmallCounts}

\* the multi-row reports are those of the first two days of the era
SmallDays == {1, 2}

\* the reports holding rows rs, row i in the report of day CutoffDay + ds[i] - 1
FilesOf(ds, rs) ==
    LET n == Len(rs)
        days == {ds[i] : i \in 1..n}
        rowsOf(d) ==
            LET idx == {i \in 1..n : ds[i] = d}
            IN  [p \in 1..Cardinality(idx) |->
                    rs[CHOOSE i \in idx :
                        Cardinality({j \in idx : j < i}) = p - 1]]
    IN  [p \in 1..Cardinality(days) |->
            LET d == CHOOSE x \in days :
                        Cardinality({y \in days : y < x}) = p - 1
            IN  File(CutoffDay + d - 1, rowsOf(d))]

NonDecreasing(ds) == \A i \in 1..(Len(ds) - 1) : ds[i] <= ds[i + 1]

\* up to MaxRows rows over one or two days, several rows a day allowed
SmallFiles ==
    UNION {
        {FilesOf(ds, rs) :
            ds \in {x \in [1..n -> SmallDays] : NonDecreasing(x)},
            rs \in [1..n -> SmallRows]}
        : n \in 1..MaxRows}

\* one report of two countries: one row of arbitrary counts, one consistent row
PairFiles ==
    {<<File(CutoffDay,
            <<PostRow("Mainland China", "Hubei", c, d, r, a),
              PostRow("US", "New York", MaxCount, 0, MaxCount, 0)>>)>> :
        c \in Vals, d \in Vals, r \in Vals, a \in Vals}

\* the reports of two days, one row each, at least one of them unreadable
BrokenFiles ==
    {<<BadFile(CutoffDay), File(CutoffDay + 1, <<r>>)>> : r \in SmallRows}
    \cup {<<File(CutoffDay, <<r>>), BadFile(CutoffDay + 1)>> : r \in SmallRows}
    \cup {<<BadFile(CutoffDay), BadFile(CutoffDay + 1)>>}

\* one state, one row a day, MaxSeries days
SeriesFiles ==
    {[i \in 1..MaxSeries |->
        File(CutoffDay + i - 1, <<PostRow("US", "New York", cs[i], 0, 0, cs[i])>>)]
        : cs \in [1..MaxSeries -> SmallCounts]}

----------------------------------------------------------------------------
(* etl.py *)

\* load_data: every report, its Date taken from the file name, concatenated
load_data(fs) ==
    Concat([i \in 1..Len(fs) |->
        [j \in 1..Len(fs[i].rows) |-> WithCol(fs[i].rows[j], "Date", fs[i].date)]])

column_mapping ==
    [k \in {"Country_Region", "Province_State", "Last_Update"} |->
        CASE k = "Country_Region" -> "Country"
          [] k = "Province_State" -> "State"
          [] OTHER -> "LastUpdate"]

required_columns == <<"Confirmed", "Deaths", "Recovered", "Active">>

RECURSIVE EnsureColumns(_, _, _)
\* for col in cols: if col not in df.columns: df[col] = 0
EnsureColumns(row, cols, dflt) ==
    IF cols = <<>> THEN row
    ELSE EnsureColumns(
            IF cols[1] \in DOMAIN row THEN row ELSE WithCol(row, cols[1], dflt),
            Tail(cols), dflt)

\* etl.clean_data on one row (lines 38-67)
CleanRow(row0) ==
    LET r1 == EnsureColumns(Rename(row0, column_mapping), required_columns, 0)
        rec1 == IF r1.Recovered = 0 /\ r1.Confirmed > 0
                THEN r1.Confirmed - r1.Deaths - r1.Active
                ELSE r1.Recovered
        rec2 == Min(rec1, r1.Confirmed)
        act == ClipLower0(r1.Confirmed - r1.Deaths - rec2)
    IN  WithCol(WithCol(r1, "Recovered", rec2), "Active", act)

clean_data(t) == [i \in 1..Len(t) |-> CleanRow(t[i])]

\* validate_data: TRUE iff no issue is found
validate_data(t) ==
    /\ \A c \in {"Confirmed", "Deaths", "Recovered", "Active"} :
          ~ \E i \in 1..Len(t) : t[i][c] < 0
    /\ ~ \E i \in 1..Len(t) : t[i].Confirmed < t[i].Deaths + t[i].Recovered

\* the (Country, State) group of a row; groupby drops a row whose key holds a
\* missing value (dropna=True, the default), so such a row is in no group
InGroup(row) == row.Country # NaN /\ row.State # NaN
SameGroup(a, b) ==
    /\ InGroup(a) /\ InGroup(b)
    /\ a.Country = b.Country /\ a.State = b.State

RECURSIVE SumIdx(_, _)
SumIdx(f, S) ==
    IF S = {} THEN 0
    ELSE LET x == CHOOSE y \in S : TRUE IN f[x] + SumIdx(f, S \ {x})

\* df.sort_values(['Country', 'State', 'DateIndex'])
TransformKey(row) == <<StrRank(row.Country), StrRank(row.State), row.DateIndex>>

\* groupby(['Country','State'])[col].diff().fillna(0), then clip(lower=0),
\* over the sorted table s: the column of new values
DailyChange(s, col) ==
    [i \in 1..Len(s) |->
        LET earlier == {j \in 1..(i - 1) : SameGroup(s[j], s[i])}
        IN  IF earlier = {} THEN 0
            ELSE LET j == CHOOSE x \in earlier : \A y \in earlier : y <= x
                 IN  ClipLower0(s[i][col] - s[j][col])]

\* groupby(['Country','State'])[new_col].rolling(window=7, min_periods=1).mean(),
\* assigned back by index: a row in no group gets no value
MovingAverage(s, new) ==
    [i \in 1..Len(s) |->
        IF ~ InGroup(s[i]) THEN [nan |-> TRUE, sum |-> 0, cnt |-> 0]
        ELSE LET members == {j \in 1..i : SameGroup(s[j], s[i])}
                 win == {j \in members :
                            Cardinality({k \in members : k >= j}) <= Window}
             IN  [nan |-> FALSE, sum |-> SumIdx(new, win), cnt |-> Cardinality(win)]]

metric_cols == <<"Confirmed", "Deaths", "Recovered">>

RECURSIVE AddChanges(_, _)
\* for col in ['Confirmed', 'Deaths', 'Recovered']: New<col>, New<col>MA7
AddChanges(s, cols) ==
    IF cols = <<>> THEN s
    ELSE LET new == DailyChange(s, cols[1])
             ma == MovingAverage(s, new)
             nc == "New" \o cols[1]
         IN  AddChanges(
                [i \in 1..Len(s) |->
                    WithCol(WithCol(s[i], nc, new[i]), nc \o "MA7", ma[i])],
                Tail(cols))

transform_data(t) ==
    LET t1 == [i \in 1..Len(t) |-> WithCol(t[i], "DateIndex", DateIndex(t[i].Date))]
    IN  AddChanges(SortRows(t1, [i \in 1..Len(t1) |-> TransformKey(t1[i])]),
                   metric_cols)

agg_columns == {"Confirmed", "Deaths", "Recovered", "Active",
                "NewConfirmed", "NewDeaths", "NewRecovered"}

\* the k-th smallest element (k from 1) of a set of integer tuples
KthTuple(S, k) ==
    CHOOSE x \in S : Cardinality({y \in S : LexLess(y, x)}) = k - 1

\* lines 118-121: clip Active and Recovered at 0, then Recovered <= Confirmed
AggValidate(row) ==
    LET a == ClipLower0(row.Active)
        r == ClipLower0(row.Recovered)
    IN  WithCol(WithCol(row, "Active", a), "Recovered", Min(r, row.Confirmed))

\* df.groupby('Date').agg(sum), sorted by Date, validated
GlobalDaily(t) ==
    LET days == {<<t[i].Date>> : i \in 1..Len(t)}
    IN  [p \in 1..Cardinality(days) |->
            LET d == KthTuple(days, p)[1]
                idx == {i \in 1..Len(t) : t[i].Date = d}
            IN  AggValidate(
                    [c \in agg_columns \cup {"Date"} |->
                        IF c = "Date" THEN d
                        ELSE SumIdx([i \in 1..Len(t) |-> t[i][c]], idx)])]

\* df.groupby(['Date', 'Country']).agg(sum), sorted by Country then Date, validated
CountryDaily(t) ==
    LET keyed == {i \in 1..Len(t) : t[i].Country # NaN}
        keys == {<<StrRank(t[i].Country), t[i].Date>> : i \in keyed}
    IN  [p \in 1..Cardinality(keys) |->
            LET k == KthTuple(keys, p)
                idx == {i \in keyed :
                          StrRank(t[i].Country) = k[1] /\ t[i].Date = k[2]}
                co == t[CHOOSE i \in idx : TRUE].Country
            IN  AggValidate(
                    [c \in agg_columns \cup {"Date", "Country"} |->
                        CASE c = "Date" -> k[2]
                          [] c = "Country" -> co
                          [] OTHER -> SumIdx([i \in 1..Len(t) |-> t[i][c]], idx)])]

----------------------------------------------------------------------------
(* acquisition.py *)

pre_mapping ==
    [k \in {"Province/State", "Country/Region", "Last Update"} |->
        CASE k = "Province/State" -> "Province_State"
          [] k = "Country/Region" -> "Country_Region"
          [] OTHER -> "Last_Update"]

acq_required == <<"Province_State", "Country_Region", "Last_Update",
                  "Confirmed", "Deaths", "Recovered", "Active">>

RECURSIVE AcqEnsure(_, _)
\* df[col] = np.nan if col in ['Province_State', 'Last_Update'] else 0
AcqEnsure(row, cols) ==
    IF cols = <<>> THEN row
    ELSE AcqEnsure(
            IF cols[1] \in DOMAIN row THEN row
            ELSE WithCol(row, cols[1],
                    IF cols[1] \in {"Province_State", "Last_Update"} THEN NaN ELSE 0),
            Tail(cols))

\* standardize_columns on one row; the later era's mapping renames nothing
standardize_columns(row, date) ==
    AcqEnsure(IF date < CutoffDay THEN Rename(row, pre_mapping) ELSE row,
              acq_required)

\* process_file on one row: standardize, add Date, compute Active if (still) missing
ProcessRow(row, date) ==
    LET r1 == WithCol(standardize_columns(row, date), "Date", date)
    IN  IF "Active" \notin DOMAIN r1
        THEN WithCol(r1, "Active", r1.Confirmed - r1.Deaths - r1.Recovered)
        ELSE r1

\* process_file: lines 97-117; an unreadable file gives pd.DataFrame()
process_file(f) ==
    IF f.readable
    THEN [j \in 1..Len(f.rows) |-> ProcessRow(f.rows[j], f.date)]
    ELSE <<>>

\* clean_combined_data without line 153 (Deaths is not capped at Confirmed)
CleanCombinedRowNoDeathsCap(row) ==
    LET c == ClipLower0(row.Confirmed)
        d == ClipLower0(row.Deaths)
        r == Min(ClipLower0(row.Recovered), c)
    IN  [k \in DOMAIN row |->
            CASE k = "Province_State" ->
                    IF row.Province_State = NaN THEN "" ELSE row.Province_State
              [] k = "Country_Region" ->
                    IF row.Country_Region = NaN THEN "Unknown" ELSE row.Country_Region
              [] k = "Confirmed" -> c
              [] k = "Deaths" -> d
              [] k = "Recovered" -> r
              [] k = "Active" -> ClipLower0(c - d - r)
              [] OTHER -> row[k]]

\* clean_combined_data on one row (lines 143-155)
CleanCombinedRow(row) ==
    LET ps == IF row.Province_State = NaN THEN "" ELSE row.Province_State
        cr == IF row.Country_Region = NaN THEN "Unknown" ELSE row.Country_Region
        c == ClipLower0(row.Confirmed)
        d0 == ClipLower0(row.Deaths)
        r0 == ClipLower0(row.Recovered)
        r == Min(r0, c)
        d == Min(d0, c)
        a == ClipLower0(c - d - r)
    IN  [k \in DOMAIN row |->
            CASE k = "Province_State" -> ps
              [] k = "Country_Region" -> cr
              [] k = "Confirmed" -> c
              [] k = "Deaths" -> d
              [] k = "Recovered" -> r
              [] k = "Active" -> a
              [] OTHER -> row[k]]

\* df.sort_values(['Date', 'Country_Region', 'Province_State'])
CombinedKey(row) ==
    <<row.Date, StrRank(row.Country_Region), StrRank(row.Province_State)>>

clean_combined_data(t) ==
    LET t1 == [i \in 1..Len(t) |-> CleanCombinedRow(t[i])]
    IN  SortRows(t1, [i \in 1..Len(t1) |-> CombinedKey(t1[i])])

----------------------------------------------------------------------------
(* acquisition.py: the downloader *)

\* current_date.strftime("%m-%d-%Y") + ".csv": the fields of the local file name
FileName(d) == LET ymd == DayToYMD(d) IN <<ymd[2], ymd[3], ymd[1]>>

NoFile == [exists |-> FALSE, written |-> 0, complete |-> FALSE]

\* what the remote host and the network do to one request:
\*   ok            the body arrives whole (MaxChunks chunks)
\*   http_error    raise_for_status raises HTTPError (a 404, ...)
\*   conn_error    requests.get raises ConnectionError
\*   stream_error  iter_content raises after `chunks` chunks
Outcomes ==
    {[kind |-> k, chunks |-> 0] : k \in {"http_error", "conn_error"}}
    \cup {[kind |-> "stream_error", chunks |-> n] : n \in 0..(MaxChunks - 1)}
    \cup {[kind |-> "ok", chunks |-> MaxChunks]}

\* download_file: what it returns and the file it leaves at local_filename.
\* open(local_filename, 'wb') comes after raise_for_status and creates or
\* truncates the file; every chunk received is written; the except clause
\* removes nothing.
download_file(o, old) ==
    CASE o.kind \in {"http_error", "conn_error"} ->
            [ret |-> FALSE, file |-> old]
      [] o.kind = "stream_error" ->
            [ret |-> FALSE,
             file |-> [exists |-> TRUE, written |-> o.chunks, complete |-> FALSE]]
      [] OTHER ->
            [ret |-> TRUE,
             file |-> [exists |-> TRUE, written |-> o.chunks, complete |-> TRUE]]

\* the loop with < for <=: today is never attempted
LoopConditionStrict(cur, end) == cur < end

\* while current_date <= end_date
LoopCondition(cur, end) == cur <= end

----------------------------------------------------------------------------
(* data_loader.py: the US dashboard's loader *)

\* the day of the i-th request: start_date + (i - 1) days
LoaderDay(i) == LoaderStartDay + i - 1

\* one row of a daily US report.  A cell the report does not hold (its file
\* has no such column, so pd.concat and read_csv leave it missing) is a
\* column outside the row's domain.
UsRow(state, c, d) ==
    [Province_State |-> state, Confirmed |-> c, Deaths |-> d, Active |-> c - d]

\* the i-th daily report of a series: New York's Confirmed rises by one a day
\* and falls by `drop` on day dropAt, from which day on the reports carry a
\* death and the Recovered column; Ohio reports from day ohioFrom on
Report(sh, i) ==
    LET c == IF i >= sh.dropAt THEN i - sh.drop ELSE i
        ny == IF i >= sh.dropAt
              THEN WithCol(UsRow("New York", c, 1), "Recovered", 1)
              ELSE UsRow("New York", c, 0)
    IN  IF i >= sh.ohioFrom THEN <<ny, UsRow("Ohio", 1, 0)>> ELSE <<ny>>

Shapes ==
    [dropAt : {2, MaxLoaderDays}, drop : {0, MaxDrop},
     ohioFrom : {MaxLoaderDays, MaxLoaderDays + 1}]

\* the sets of days the remote host has a report for
Available ==
    {a..b : a \in {1, 2}, b \in {0, MaxLoaderDays - 1, MaxLoaderDays}}
    \cup {(1..MaxLoaderDays) \ {2}}

\* what pd.read_csv(url) meets, request by request
Remotes ==
    {[i \in 1..MaxLoaderDays |->
        [ok |-> i \in av, rows |-> IF i \in av THEN Report(sh, i) ELSE <<>>]] :
        sh \in Shapes, av \in Available}

\* the loop of download_data, lines 21-34, up to request i: the frames read,
\* each with df['Date'] = current_date; a failed request adds nothing
RECURSIVE AllData(_, _)
AllData(rem, i) ==
    IF i = 0 THEN <<>>
    ELSE LET rest == AllData(rem, i - 1)
         IN  IF rem[i].ok
             THEN Append(rest,
                         [j \in 1..Len(rem[i].rows) |->
                             WithCol(rem[i].rows[j], "Date", LoaderDay(i))])
             ELSE rest

\* df.to_csv(cache_file, index=False): a Date is written as its text
to_csv(t) ==
    [i \in 1..Len(t) |-> WithCol(t[i], "Date", DayToYMD(t[i].Date))]

\* pd.to_datetime(df['Date']) on the text read back
to_datetime(t) ==
    [i \in 1..Len(t) |->
        WithCol(t[i], "Date",
                CHOOSE d \in 1..(LoaderStartDay + MaxLoaderDays) :
                    DayToYMD(d) = t[i].Date)]

NoCache == [exists |-> FALSE, readable |-> FALSE, rows |-> <<>>]

\* a cache file pd.read_csv or pd.to_datetime raises on
CorruptCache == [exists |-> TRUE, readable |-> FALSE, rows |-> <<>>]

\* _save_cache
save_cache(t) == [exists |-> TRUE, readable |-> TRUE, rows |-> to_csv(t)]

\* the cache files main can find: none, a corrupt one, or what an earlier
\* download of one day or of every day saved
Caches ==
    {NoCache, CorruptCache}
    \cup {save_cache(Concat(AllData(
              [i \in 1..MaxLoaderDays |-> [ok |-> TRUE, rows |-> Report(sh, i)]],
              n))) :
            sh \in Shapes, n \in {1, MaxLoaderDays}}

essential_columns ==
    {"Province_State", "Confirmed", "Deaths", "Recovered", "Active",
     "Incident_Rate", "Total_Test_Results", "Hospitalization_Rate",
     "Case_Fatality_Ratio"}

\* lines 70-77: an absent column is created, a missing numeric cell is 0
Essential(row) ==
    [c \in (DOMAIN row) \cup essential_columns |->
        IF c \in DOMAIN row THEN row[c]
        ELSE IF c = "Province_State" THEN "" ELSE 0]

\* (Total_Test_Results / Confirmed).clip(lower=0) as the fraction num/den;
\* x/0 is inf for x > 0, -inf (clipped to 0) for x < 0, and missing for 0/0
Testing_Rate(row) ==
    LET t == row.Total_Test_Results
        c == row.Confirmed
    IN  IF c = 0
        THEN (IF t = 0 THEN [nan |-> TRUE, num |-> 0, den |-> 0]
              ELSE IF t > 0 THEN [nan |-> FALSE, num |-> 1, den |-> 0]
              ELSE [nan |-> FALSE, num |-> 0, den |-> 1])
        ELSE IF t * c < 0 THEN [nan |-> FALSE, num |-> 0, den |-> 1]
        ELSE [nan |-> FALSE, num |-> t, den |-> c]

\* the rows of row i's state, up to and including row i
StateRowsUpTo(t, i) ==
    {k \in 1..i : t[k].Province_State = t[i].Province_State}

\* df.groupby('Province_State')[col].diff().fillna(0): nothing clips it
StateDiff(t, col) ==
    [i \in 1..Len(t) |->
        LET earlier == StateRowsUpTo(t, i) \ {i}
        IN  IF earlier = {} THEN 0
            ELSE LET j == CHOOSE x \in earlier : \A y \in earlier : y <= x
                 IN  t[i][col] - t[j][col]]

\* df.groupby('Province_State')[new].rolling(7).mean(): min_periods defaults
\* to the window, so a row with fewer than 7 rows of its state so far gets
\* no value
StateRolling(t, new) ==
    [i \in 1..Len(t) |->
        LET members == StateRowsUpTo(t, i)
            win == {j \in members :
                       Cardinality({k \in members : k >= j}) <= RollingWindow}
        IN  IF Cardinality(members) < RollingWindow
            THEN [nan |-> TRUE, sum |-> 0, cnt |-> 0]
            ELSE [nan |-> FALSE, sum |-> SumIdx(new, win), cnt |-> Cardinality(win)]]

us_metrics == <<"Confirmed", "Deaths", "Recovered", "Active">>

RECURSIVE AddStateChanges(_, _)
\* for col in ['Confirmed', 'Deaths', 'Recovered', 'Active']: New_<col>,
\* New_<col>_MA7
AddStateChanges(t, cols) ==
    IF cols = <<>> THEN t
    ELSE LET new == StateDiff(t, cols[1])
             ma == StateRolling(t, new)
             nc == "New_" \o cols[1]
         IN  AddStateChanges(
                [i \in 1..Len(t) |->
                    WithCol(WithCol(t[i], nc, new[i]), nc \o "_MA7", ma[i])],
                Tail(cols))

\* DataLoader._process_data
process_data(t) ==
    LET t1 == [i \in 1..Len(t) |-> Essential(t[i])]
        t2 == [i \in 1..Len(t1) |->
                  WithCol(t1[i], "Testing_Rate", Testing_Rate(t1[i]))]
    IN  AddStateChanges(t2, us_metrics)

\* load_data, lines 52-54: the processed content of the cache file
FromCache(c) == process_data(to_datetime(c.rows))

\* load_data with the test of force_refresh left out
TriesCacheIgnoringRefresh(force, c) == c.exists

\* load_data, line 50: not force_refresh and os.path.exists(self.cache_file)
TriesCache(force, c) == ~ force /\ c.exists

----------------------------------------------------------------------------
(* The pipeline's steps *)

TableInit ==
    /\ files \in WideFiles \cup SmallFiles \cup SeriesFiles \cup BrokenFiles
                \cup PairFiles
    /\ df = <<>>
    /\ ops = <<>>
    /\ valid = FALSE
    /\ global_daily = <<>>
    /\ country_daily = <<>>

FetchIdle ==
    /\ current_date = 1
    /\ downloaded_files = <<>>
    /\ raw_store = <<>>
    /\ attempts = <<>>
    /\ returned = <<>>
    /\ pc = "idle"

LoaderIdle ==
    /\ cache = NoCache
    /\ cache_at_start = cache
    /\ remote = <<>>
    /\ force_refresh = FALSE
    /\ download_started = FALSE
    /\ all_data = <<>>
    /\ result = <<>>
    /\ lpc = "idle"
    /\ ui = "idle"

TableIdle ==
    /\ files = <<>>
    /\ df = <<>>
    /\ ops = <<>>
    /\ valid = FALSE
    /\ global_daily = <<>>
    /\ country_daily = <<>>

Init == TableInit /\ FetchIdle /\ LoaderIdle

\* run_etl: df = load_data(); pd.read_csv (line 13) is outside the try, so an
\* unreadable report raises out of load_data and run_etl
LoadData ==
    /\ ops = <<>>
    /\ IF \A i \in 1..Len(files) : files[i].readable
       THEN /\ df' = load_data(files)
            /\ ops' = <<"load_data">>
       ELSE /\ df' = df
            /\ ops' = <<"load_data raised">>
    /\ UNCHANGED <<files, valid, global_daily, country_daily, fetchVars, loaderVars>>

\* run_etl: df_cleaned = clean_data(df); once more for a re-run on its own output
CleanData ==
    /\ ops \in {<<"load_data">>, <<"load_data", "clean_data">>}
    /\ df' = clean_data(df)
    /\ ops' = Append(ops, "clean_data")
    /\ UNCHANGED <<files, valid, global_daily, country_daily, fetchVars, loaderVars>>

\* run_etl: df_transformed = transform_data(df_cleaned); df['Country'] raises
\* KeyError on a table of the slash-named era, whose columns clean_data leaves
TransformData ==
    /\ ops = <<"load_data", "clean_data">>
    /\ IF \A i \in 1..Len(df) : {"Country", "State"} \subseteq DOMAIN df[i]
       THEN /\ df' = transform_data(df)
            /\ ops' = Append(ops, "transform_data")
       ELSE /\ df' = df
            /\ ops' = Append(ops, "KeyError")
    /\ UNCHANGED <<files, valid, global_daily, country_daily, fetchVars, loaderVars>>

\* run_etl: validate_data(df_transformed)
ValidateData ==
    /\ ops = <<"load_data", "clean_data", "transform_data">>
    /\ valid' = validate_data(df)
    /\ ops' = Append(ops, "validate_data")
    /\ UNCHANGED <<files, df, global_daily, country_daily, fetchVars, loaderVars>>

\* run_etl: global_daily, country_daily = aggregate_data(df_transformed)
AggregateData ==
    /\ ops = <<"load_data", "clean_data", "transform_data", "validate_data">>
    /\ global_daily' = GlobalDaily(df)
    /\ country_daily' = CountryDaily(df)
    /\ ops' = Append(ops, "aggregate_data")
    /\ UNCHANGED <<files, df, valid, fetchVars, loaderVars>>

\* combine_daily_reports, lines 121-133: process every report, concatenate
ProcessFiles ==
    /\ ops = <<>>
    /\ LET combined_data == Concat([i \in 1..Len(files) |-> process_file(files[i])])
       IN  IF combined_data = <<>>
           THEN \* raise ValueError("No data was processed successfully")
                /\ df' = df
                /\ ops' = <<"combine_daily_reports raised">>
           ELSE /\ df' = combined_data
                /\ ops' = <<"process_file">>
    /\ UNCHANGED <<files, valid, global_daily, country_daily, fetchVars, loaderVars>>

\* combine_daily_reports, line 136
CleanCombinedData ==
    /\ ops = <<"process_file">>
    /\ df' = clean_combined_data(df)
    /\ ops' = Append(ops, "clean_combined_data")
    /\ UNCHANGED <<files, valid, global_daily, country_daily, fetchVars, loaderVars>>

\* fetch_jhu_covid_data, lines 32-36
FetchInit ==
    /\ current_date = 1
    /\ downloaded_files = <<>>
    /\ raw_store = [d \in 1..MaxDays |-> NoFile]
    /\ attempts = <<>>
    /\ returned = <<>>
    /\ pc = "loop"
    /\ TableIdle
    /\ LoaderIdle

\* one iteration of the while loop, lines 38-47
FetchStep ==
    /\ pc = "loop"
    /\ LoopCondition(current_date, MaxDays)
    /\ \E o \in Outcomes :
        LET res == download_file(o, raw_store[current_date]) IN
        /\ attempts' = Append(attempts, [day |-> current_date, outcome |-> o])
        /\ returned' = Append(returned, res.ret)
        /\ raw_store' = [raw_store EXCEPT ![current_date] = res.file]
        /\ downloaded_files' =
              IF res.ret THEN Append(downloaded_files, FileName(current_date))
              ELSE downloaded_files
    /\ current_date' = current_date + 1
    /\ UNCHANGED <<pc, tableVars, loaderVars>>

\* the loop condition fails: lines 49-50
FetchReturn ==
    /\ pc = "loop"
    /\ ~ LoopCondition(current_date, MaxDays)
    /\ pc' = "done"
    /\ UNCHANGED <<current_date, downloaded_files, raw_store, attempts, returned,
                   tableVars, loaderVars>>

FetchNext == FetchStep \/ FetchReturn

\* the loop is sequential code: a step that can be taken is taken
FetchSpec == FetchInit /\ [][FetchNext]_vars /\ WF_vars(FetchNext)

Next ==
    \/ LoadData
    \/ CleanData
    \/ TransformData
    \/ ValidateData
    \/ AggregateData
    \/ ProcessFiles
    \/ CleanCombinedData

Spec == Init /\ [][Next]_vars

----------------------------------------------------------------------------
(* app.py and data_loader.py: one run of the dashboard's main *)

LoaderInit ==
    /\ cache \in Caches
    /\ cache_at_start = cache
    /\ remote \in Remotes
    /\ force_refresh = FALSE
    /\ download_started = FALSE
    /\ all_data = <<>>
    /\ result = <<>>
    /\ lpc = "main"
    /\ ui = "running"
    /\ TableIdle
    /\ FetchIdle

\* main, lines 58-65: the Refresh Data button decides load_data's argument
MainStart ==
    /\ lpc = "main"
    /\ \E button \in BOOLEAN : force_refresh' = button
    /\ lpc' = "load_data"
    /\ UNCHANGED <<cache, cache_at_start, remote, download_started, all_data,
                   result, ui, tableVars, fetchVars>>

\* load_data, lines 50-54: the cache is read and processed
LoadFromCache ==
    /\ lpc = "load_data"
    /\ TriesCache(force_refresh, cache)
    /\ cache.readable
    /\ result' = FromCache(cache)
    /\ lpc' = "loaded"
    /\ UNCHANGED <<cache, cache_at_start, remote, force_refresh,
                   download_started, all_data, ui, tableVars, fetchVars>>

\* load_data, lines 50-56: reading the cache raises; the except clause prints
\* and control falls through to line 58
CacheReadFails ==
    /\ lpc = "load_data"
    /\ TriesCache(force_refresh, cache)
    /\ ~ cache.readable
    /\ lpc' = "download"
    /\ UNCHANGED <<cache, cache_at_start, remote, force_refresh,
                   download_started, all_data, result, ui, tableVars, fetchVars>>

\* load_data, line 50: the condition is false
CacheBypassed ==
    /\ lpc = "load_data"
    /\ ~ TriesCache(force_refresh, cache)
    /\ lpc' = "download"
    /\ UNCHANGED <<cache, cache_at_start, remote, force_refresh,
                   download_started, all_data, result, ui, tableVars, fetchVars>>

\* load_data, lines 58-59, and download_data: with no frame the ValueError of
\* line 37 leaves download_data, load_data and main (nothing catches it);
\* otherwise the frames are concatenated, cached and processed
DownloadData ==
    /\ lpc = "download"
    /\ download_started' = TRUE
    /\ LET frames == AllData(remote, MaxLoaderDays) IN
        /\ all_data' = frames
        /\ IF frames = <<>>
           THEN /\ ui' = "ValueError"
                /\ lpc' = "done"
                /\ UNCHANGED <<cache, result>>
           ELSE /\ cache' = save_cache(Concat(frames))
                /\ result' = process_data(Concat(frames))
                /\ lpc' = "loaded"
                /\ ui' = ui
    /\ UNCHANGED <<cache_at_start, remote, force_refresh, tableVars, fetchVars>>

\* main, lines 67-115, with the state the user selects.  load_data returns a
\* frame or raises, so the test of line 67 is never true.  create_metrics
\* reads state_data.iloc[-8]: an IndexError when the state has fewer rows.
Render ==
    /\ lpc = "loaded"
    /\ \E state \in {result[i].Province_State : i \in 1..Len(result)} :
        LET state_data == SelectSeq(result, LAMBDA r : r.Province_State = state)
        IN  ui' = IF Len(state_data) < WeekAgo THEN "IndexError" ELSE "rendered"
    /\ lpc' = "done"
    /\ UNCHANGED <<cache, cache_at_start, remote, force_refresh,
                   download_started, all_data, result, tableVars, fetchVars>>

LoaderNext ==
    \/ MainStart
    \/ LoadFromCache
    \/ CacheReadFails
    \/ CacheBypassed
    \/ DownloadData
    \/ Render

LoaderSpec == LoaderInit /\ [][LoaderNext]_vars

----------------------------------------------------------------------------
(* Properties *)

Max0(x) == IF x < 0 THEN 0 ELSE x

Consistent(row) ==
    /\ row.Deaths <= row.Confirmed
    /\ row.Recovered <= row.Confirmed
    /\ row.Active = Max0(row.Confirmed - row.Deaths - row.Recovered)

\* the one row of a single-row raw store
Input == files[1].rows[1]

AfterCombine == ops = <<"process_file", "clean_combined_data">>
AfterClean == ops = <<"load_data", "clean_data">>
AfterTransform == ops = <<"load_data", "clean_data", "transform_data">>
AfterAggregate ==
    ops = <<"load_data", "clean_data", "transform_data", "validate_data",
            "aggregate_data">>

\* C1: every row clean_combined_data returns has Deaths <= Confirmed,
\* Recovered <= Confirmed and Active = max(Confirmed - Deaths - Recovered, 0),
\* whatever the counts that went in (negative ones included).
C1_CleanCombinedConsistent ==
    AfterCombine => \A i \in 1..Len(df) : Consistent(df[i])

\* C1's case: a row that came in with a negative count and more deaths and
\* recoveries than cases has been cleaned
C1_Witness ==
    /\ AfterCombine
    /\ Len(files) = 1 /\ Len(files[1].rows) = 1
    /\ "Active" \in DOMAIN Input
    /\ Input.Active < 0
    /\ Input.Deaths > Input.Confirmed
    /\ Input.Recovered > Input.Confirmed
    /\ Input.Confirmed > 0

\* C2: every row etl.clean_data returns has Deaths <= Confirmed,
\* Recovered <= Confirmed and Active = max(Confirmed - Deaths - Recovered, 0),
\* and validate_data of that output is True.
C2_EtlCleanConsistent ==
    AfterClean =>
        /\ \A i \in 1..Len(df) : Consistent(df[i])
        /\ validate_data(df)

NewCols == {"NewConfirmed", "NewDeaths", "NewRecovered"}

\* C3: after transform_data and aggregate_data every row of country_daily and
\* global_daily has NewConfirmed, NewDeaths, NewRecovered >= 0, and the
\* earliest-dated row of every country, and of global_daily, has all three 0.
C3_NewNonNegativeFirstZero ==
    AfterAggregate =>
        /\ \A i \in 1..Len(country_daily) : \A c \in NewCols : country_daily[i][c] >= 0
        /\ \A i \in 1..Len(global_daily) : \A c \in NewCols : global_daily[i][c] >= 0
        /\ \A c \in NewCols : global_daily[1][c] = 0
        /\ \A i \in 1..Len(country_daily) : \A c \in NewCols :
              (\A j \in 1..Len(country_daily) :
                  country_daily[j].Country = country_daily[i].Country
                      => country_daily[i].Date <= country_daily[j].Date)
              => country_daily[i][c] = 0

\* the sum of column col over the rows of df of country co on day d
SummedOn(co, d, col) ==
    SumIdx([i \in 1..Len(df) |-> df[i][col]],
           {i \in 1..Len(df) : df[i].Country = co /\ df[i].Date = d})

\* C4: in country_daily, on every date but a country's first, New<X> is
\* max(0, X_today - X_prev), X the country's summed Confirmed (Deaths,
\* Recovered) on this date and on the country's previous date.
C4_NewIsClippedDeltaOfSums ==
    AfterAggregate =>
        \A i \in 1..Len(country_daily) : \A j \in 1..Len(country_daily) :
            LET a == country_daily[j]
                b == country_daily[i]
                prev == /\ a.Country = b.Country
                        /\ a.Date < b.Date
                        /\ ~ \E k \in 1..Len(country_daily) :
                                /\ country_daily[k].Country = b.Country
                                /\ a.Date < country_daily[k].Date
                                /\ country_daily[k].Date < b.Date
            IN  prev =>
                  \A col \in {"Confirmed", "Deaths", "Recovered"} :
                      b["New" \o col] =
                          Max0(SummedOn(b.Country, b.Date, col)
                               - SummedOn(a.Country, a.Date, col))

\* C5: in transform_data's output, New<X>MA7 of every row is the mean of the
\* New<X> values of the last min(7, k) rows of its (Country, State) series in
\* date order, k the row's position in that series.
C5_MovingAverageIsTrailingMean ==
    AfterTransform =>
        \A i \in 1..Len(df) : \A col \in NewCols :
            LET series == {j \in 1..i : /\ df[j].Country = df[i].Country
                                         /\ df[j].State = df[i].State}
                k == Cardinality(series)
                m == IF k < 7 THEN k ELSE 7
                last == {j \in series : Cardinality({x \in series : x > j}) < m}
                ma == df[i][col \o "MA7"]
            IN  /\ ~ ma.nan
                /\ ma.cnt > 0
                /\ ma.sum * m = SumIdx([j \in 1..Len(df) |-> df[j][col]], last) * ma.cnt

\* C6: clean_data is idempotent: cleaning its own output changes neither the
\* column set nor any value.
C6_CleanIdempotent ==
    ops = <<"load_data", "clean_data", "clean_data">> =>
        df = clean_data(load_data(files))

\* C7: for a raw file without an Active column, every row process_file
\* returns has Active = Confirmed - Deaths - Recovered.
C7_ActiveComputedWhenAbsent ==
    (ops = <<"process_file">> /\ Len(files) = 1 /\ "Active" \notin DOMAIN Input) =>
        \A i \in 1..Len(df) :
            df[i].Active = df[i].Confirmed - df[i].Deaths - df[i].Recovered

Aliases == {"Mainland China", "US"}

\* C8: after combine_daily_reports, and after etl.clean_data, no row carries
\* a country alias ("Mainland China", "US").
C8_NoAliasAfterCleaning ==
    (AfterCombine \/ AfterClean) =>
        \A i \in 1..Len(df) :
            \A c \in {"Country", "Country_Region", "Country/Region"} \cap DOMAIN df[i] :
                df[i][c] \notin Aliases

\* the file names of the attempts that succeeded, in order
RECURSIVE SucceededNames(_)
SucceededNames(as) ==
    IF as = <<>> THEN <<>>
    ELSE (IF as[1].outcome.kind = "ok" THEN <<FileName(as[1].day)>> ELSE <<>>)
         \o SucceededNames(Tail(as))

C9_Safety ==
    /\ \A i \in 1..Len(attempts) : attempts[i].day = i
    /\ pc = "done" => Len(attempts) = MaxDays
    /\ downloaded_files = SucceededNames(attempts)

\* C9: fetch_jhu_covid_data attempts every day from the start date to today
\* once, in ascending order, whatever fails on the way; the loop ends; and the
\* list returned is the file names of the days that succeeded, in date order.
C9_FetchAttemptsEveryDay == [](C9_Safety) /\ <>(pc = "done")

\* C9's case: the run is over, an early day failed at HTTP level, a later one
\* succeeded
C9_Witness ==
    /\ pc = "done"
    /\ attempts[1].outcome.kind = "http_error"
    /\ attempts[2].outcome.kind = "conn_error"
    /\ attempts[MaxDays].outcome.kind = "ok"
    /\ downloaded_files # <<>>

\* C10: after a run from an empty raw store a date has a file, complete or
\* partial, if and only if download_file returned True for it.
C10_FileIffDownloaded ==
    pc = "done" =>
        \A d \in 1..MaxDays : raw_store[d].exists <=> returned[d]

\* every row of every readable report is in df, under the report's date
HoldsParseableRows ==
    \A i \in 1..Len(files) :
        files[i].readable =>
            Cardinality({k \in 1..Len(df) : df[k].Date = files[i].date})
                = Len(files[i].rows)

\* C11: in combine_daily_reports and in etl.load_data an unreadable raw file
\* is skipped: the step completes and its output holds the rows of every
\* other file.
C11_UnreadableFileSkipped ==
    (/\ Len(ops) = 1
     /\ \E i \in 1..Len(files) : ~ files[i].readable
     /\ \E i \in 1..Len(files) : files[i].readable) =>
        /\ ops[1] \in {"load_data", "process_file"}
        /\ HoldsParseableRows

\* the cache holds nothing usable and no request succeeds
NoDataObtainable ==
    /\ ~ (cache_at_start.exists /\ cache_at_start.readable)
    /\ \A i \in 1..MaxLoaderDays : ~ remote[i].ok

\* C12: main never raises, whatever the data and the selected state (one
\* with fewer than 8 rows included); when the cache is missing or unreadable
\* and nothing can be downloaded it ends on the on-screen error.
C12_MainNeverRaises ==
    lpc = "done" =>
        /\ ui \in {"rendered", "error_shown"}
        /\ NoDataObtainable => ui = "error_shown"

\* C13: every row of global_daily and of country_daily has Active >= 0,
\* Recovered >= 0 and Recovered <= Confirmed.
C13_AggregatesConsistent ==
    AfterAggregate =>
        /\ \A i \in 1..Len(global_daily) :
              /\ global_daily[i].Active >= 0
              /\ global_daily[i].Recovered >= 0
              /\ global_daily[i].Recovered <= global_daily[i].Confirmed
        /\ \A i \in 1..Len(country_daily) :
              /\ country_daily[i].Active >= 0
              /\ country_daily[i].Recovered >= 0
              /\ country_daily[i].Recovered <= country_daily[i].Confirmed

\* load_data has returned a table
Loaded == lpc \in {"loaded", "done"} /\ result # <<>>

\* C14: in the loader's table New_X is 0 on a state's first row and never
\* negative, for X in Confirmed, Deaths, Recovered, Active.
C14_StateNewNonNegative ==
    Loaded =>
        \A i \in 1..Len(result) : \A j \in 1..Len(us_metrics) :
            LET new == result[i]["New_" \o us_metrics[j]]
            IN  /\ new >= 0
                /\ StateRowsUpTo(result, i) = {i} => new = 0

\* C15: in the loader's table New_X_MA7 is present on every row and is the
\* mean of the state's New_X values so far, the last seven at most.
C15_StateAverageAlwaysDefined ==
    Loaded =>
        \A i \in 1..Len(result) : \A j \in 1..Len(us_metrics) :
            LET nc == "New_" \o us_metrics[j]
                ma == result[i][nc \o "_MA7"]
                members == StateRowsUpTo(result, i)
                win == {k \in members :
                           Cardinality({m \in members : m >= k}) <= RollingWindow}
            IN  /\ ~ ma.nan
                /\ ma.cnt = Cardinality(win)
                /\ ma.sum = SumIdx([k \in 1..Len(result) |-> result[k][nc]], win)

\* C16: load_data downloads exactly when force_refresh is set, the cache
\* file is absent, or reading it fails; without a download the cache file is
\* untouched and the result is its processed content; a download of zero
\* files raises and leaves the cache file as it was.
C16_DownloadOnlyWhenNeeded ==
    lpc \in {"loaded", "done"} =>
        /\ download_started <=>
              (force_refresh \/ ~ cache_at_start.exists \/ ~ cache_at_start.readable)
        /\ ~ download_started =>
              (cache = cache_at_start /\ result = FromCache(cache_at_start))
        /\ (download_started /\ all_data = <<>>) =>
              (ui = "ValueError" /\ cache = cache_at_start)

\* C16's case: a forced refresh over a good cache file met a host with no
\* report at all
C16_Witness ==
    /\ lpc = "done"
    /\ force_refresh
    /\ cache_at_start.exists /\ cache_at_start.readable
    /\ download_started
    /\ all_data = <<>>

\* C17: on every date and for every aggregated metric, global_daily's value
\* is the sum of country_daily's values over the countries of that date
\* (every row having a country).
C17_GlobalIsSumOfCountries ==
    (AfterAggregate /\ \A i \in 1..Len(df) : df[i].Country # NaN) =>
        \A g \in 1..Len(global_daily) : \A m \in agg_columns :
            global_daily[g][m] =
                SumIdx([k \in 1..Len(country_daily) |-> country_daily[k][m]],
                       {k \in 1..Len(country_daily) :
                            country_daily[k].Date = global_daily[g].Date})

=============================================================================
